---- MODULE Spec2Model ----
(***************************************************************************)
(* Model of PNSAttackSimulator (src/pns_attacks.py): the six parallel      *)
(* per-round lists, send_bit (one round of transmission) and               *)
(* eve_delayed_measurement (the deferred-measurement pass).                *)
(*                                                                         *)
(* Python lists are 0-based, TLA+ sequences 1-based: round k of the code   *)
(* is index k+1 here.  None is NoneBit in a list of bits and NoneBasis in  *)
(* a list of bases (TLC cannot compare an integer with a string).          *)
(***************************************************************************)
EXTENDS Integers, Sequences, FiniteSets

VARIABLES
    eve_intercept,   \* self.eve_intercept, fixed at construction
    alice_bits,      \* self.alice_bits
    alice_bases,     \* self.alice_bases
    bob_bits,        \* self.bob_bits
    bob_bases,       \* self.bob_bases
    eve_bits,        \* self.eve_bits
    eve_bases,       \* self.eve_bases
    photon_nums,     \* history: the photon_num sampled in each send_bit call
    last_call,       \* history: the method called last
    resolve_calls,   \* history: consecutive eve_delayed_measurement calls since the last send_bit
    raised           \* history: the exception the last call ended with ("" if it returned)

vars == <<eve_intercept, alice_bits, alice_bases, bob_bits, bob_bases,
          eve_bits, eve_bases, photon_nums, last_call, resolve_calls, raised>>

\* ---- bounds ----
MaxRounds == 2
MaxResolves == 2

\* ---- value domains ----
Bits == {0, 1}
Bases == {"Z", "X"}
PhotonNumbers == {0, 1, 2}
NoneBit == -1
NoneBasis == "None"

\* ---- __init__ ----
Init ==
    /\ eve_intercept \in BOOLEAN
    /\ alice_bits = <<>>
    /\ alice_bases = <<>>
    /\ bob_bits = <<>>
    /\ bob_bases = <<>>
    /\ eve_bits = <<>>
    /\ eve_bases = <<>>
    /\ photon_nums = <<>>
    /\ last_call = "__init__"
    /\ resolve_calls = 0
    /\ raised = ""

\* ---- send_bit ----

\* Variant: the vacuum pulse is recorded as a detection of Alice's bit.
VacuumBranchDetect(alice_bit, alice_basis, bob_basis) ==
    /\ bob_bits' = Append(bob_bits, alice_bit)
    /\ eve_bits' = IF eve_intercept THEN Append(eve_bits, NoneBit) ELSE eve_bits
    /\ eve_bases' = eve_bases

\* Variant: the vacuum pulse leaves no entry in Bob's bit list.
VacuumBranchNoBob(alice_bit, alice_basis, bob_basis) ==
    /\ bob_bits' = bob_bits
    /\ eve_bits' = IF eve_intercept THEN Append(eve_bits, NoneBit) ELSE eve_bits
    /\ eve_bases' = eve_bases

\* Variant: the vacuum pulse reserves a slot in Eve's bit list in either mode.
VacuumBranchAlwaysReserve(alice_bit, alice_basis, bob_basis) ==
    /\ bob_bits' = Append(bob_bits, NoneBit)
    /\ eve_bits' = Append(eve_bits, NoneBit)
    /\ eve_bases' = eve_bases

\* photon_num == 0: Bob detects nothing; Eve's bit list alone gets a slot
\* when she intercepts, her basis list gets none.
VacuumBranch(alice_bit, alice_basis, bob_basis) ==
    /\ bob_bits' = Append(bob_bits, NoneBit)
    /\ eve_bits' = IF eve_intercept THEN Append(eve_bits, NoneBit) ELSE eve_bits
    /\ eve_bases' = eve_bases

\* Variant: Bob's bit always equals Alice's bit, whatever the bases.
PNSBranchPerfect(alice_bit, alice_basis, bob_basis) ==
    /\ eve_bits' = Append(eve_bits, NoneBit)
    /\ eve_bases' = Append(eve_bases, NoneBasis)
    /\ bob_bits' = Append(bob_bits, alice_bit)

\* eve_intercept and photon_num > 1: Eve keeps a photon and defers.
PNSBranch(alice_bit, alice_basis, bob_basis) ==
    /\ eve_bits' = Append(eve_bits, NoneBit)
    /\ eve_bases' = Append(eve_bases, NoneBasis)
    /\ \E r \in Bits :
          bob_bits' = Append(bob_bits, IF alice_basis = bob_basis THEN alice_bit ELSE r)

\* Variant: Eve's bit is a random guess even when her basis matches Alice's.
InterceptResendGuess(alice_bit, alice_basis, bob_basis) ==
    \E eve_basis \in Bases, r1 \in Bits, r2 \in Bits :
        LET eve_bit == r1
        IN  /\ eve_bases' = Append(eve_bases, eve_basis)
            /\ eve_bits' = Append(eve_bits, eve_bit)
            /\ bob_bits' = Append(bob_bits, IF bob_basis = eve_basis THEN eve_bit ELSE r2)

\* Variant: Eve measures and resends but records None for her bit.
InterceptResendDefer(alice_bit, alice_basis, bob_basis) ==
    \E eve_basis \in Bases, r1 \in Bits, r2 \in Bits :
        LET eve_bit == IF eve_basis = alice_basis THEN alice_bit ELSE r1
        IN  /\ eve_bases' = Append(eve_bases, eve_basis)
            /\ eve_bits' = Append(eve_bits, NoneBit)
            /\ bob_bits' = Append(bob_bits, IF bob_basis = eve_basis THEN eve_bit ELSE r2)

\* eve_intercept and photon_num == 1: intercept-resend.
InterceptResendBranch(alice_bit, alice_basis, bob_basis) ==
    \E eve_basis \in Bases, r1 \in Bits, r2 \in Bits :
        LET eve_bit == IF eve_basis = alice_basis THEN alice_bit ELSE r1
        IN  /\ eve_bases' = Append(eve_bases, eve_basis)
            /\ eve_bits' = Append(eve_bits, eve_bit)
            /\ bob_bits' = Append(bob_bits, IF bob_basis = eve_basis THEN eve_bit ELSE r2)

\* Variant: Bob's bit is a random guess even when the bases match.
NoEveBranchNoisy(alice_bit, alice_basis, bob_basis) ==
    /\ eve_bits' = Append(eve_bits, NoneBit)
    /\ eve_bases' = Append(eve_bases, NoneBasis)
    /\ \E r \in Bits : bob_bits' = Append(bob_bits, r)

\* not eve_intercept and photon_num >= 1: no Eve, perfect channel.
NoEveBranch(alice_bit, alice_basis, bob_basis) ==
    /\ eve_bits' = Append(eve_bits, NoneBit)
    /\ eve_bases' = Append(eve_bases, NoneBasis)
    /\ \E r \in Bits :
          bob_bits' = Append(bob_bits, IF alice_basis = bob_basis THEN alice_bit ELSE r)

send_bit(alice_bit, alice_basis, bob_basis, photon_num) ==
    /\ Len(alice_bits) < MaxRounds
    /\ photon_nums' = Append(photon_nums, photon_num)
    /\ alice_bits' = Append(alice_bits, alice_bit)
    /\ alice_bases' = Append(alice_bases, alice_basis)
    /\ bob_bases' = Append(bob_bases, bob_basis)
    /\ \/ /\ photon_num = 0
          /\ VacuumBranch(alice_bit, alice_basis, bob_basis)
       \/ /\ photon_num # 0
          /\ eve_intercept /\ photon_num > 1
          /\ PNSBranch(alice_bit, alice_basis, bob_basis)
       \/ /\ photon_num # 0
          /\ ~(eve_intercept /\ photon_num > 1)
          /\ eve_intercept
          /\ InterceptResendBranch(alice_bit, alice_basis, bob_basis)
       \/ /\ photon_num # 0
          /\ ~(eve_intercept /\ photon_num > 1)
          /\ ~eve_intercept
          /\ NoEveBranch(alice_bit, alice_basis, bob_basis)
    /\ last_call' = "send_bit"
    /\ resolve_calls' = 0
    /\ raised' = ""
    /\ UNCHANGED eve_intercept

\* ---- eve_delayed_measurement ----

\* Variant: the pass stops after the first round it patches.
RECURSIVE ResolveBreakLoop(_, _, _)
ResolveBreakLoop(i, bits, bases) ==
    IF i > Len(bits) THEN [bits |-> bits, bases |-> bases, raised |-> ""]
    ELSE IF bits[i] # NoneBit THEN ResolveBreakLoop(i + 1, bits, bases)
    ELSE IF i > Len(bases) THEN [bits |-> bits, bases |-> bases, raised |-> "IndexError"]
    ELSE IF bases[i] # NoneBasis THEN ResolveBreakLoop(i + 1, bits, bases)
    ELSE [bits |-> [bits EXCEPT ![i] = alice_bits[i]],
          bases |-> [bases EXCEPT ![i] = alice_bases[i]],
          raised |-> ""]

\* Variant: a round is patched whenever Eve's bit is None, without looking at
\* her basis; assigning eve_bases[i] past its end raises IndexError.
RECURSIVE ResolveBitOnlyLoop(_, _, _)
ResolveBitOnlyLoop(i, bits, bases) ==
    IF i > Len(bits) THEN [bits |-> bits, bases |-> bases, raised |-> ""]
    ELSE IF bits[i] # NoneBit THEN ResolveBitOnlyLoop(i + 1, bits, bases)
    ELSE IF i > Len(bases) THEN [bits |-> bits, bases |-> bases, raised |-> "IndexError"]
    ELSE ResolveBitOnlyLoop(i + 1,
                            [bits EXCEPT ![i] = alice_bits[i]],
                            [bases EXCEPT ![i] = alice_bases[i]])

\* Variant: every round is overwritten with Alice's basis and bit, None or not.
RECURSIVE ResolveOverwriteLoop(_, _, _)
ResolveOverwriteLoop(i, bits, bases) ==
    IF i > Len(bits) THEN [bits |-> bits, bases |-> bases, raised |-> ""]
    ELSE IF i > Len(bases) THEN [bits |-> bits, bases |-> bases, raised |-> "IndexError"]
    ELSE ResolveOverwriteLoop(i + 1,
                              [bits EXCEPT ![i] = alice_bits[i]],
                              [bases EXCEPT ![i] = alice_bases[i]])

\* The loop from index i on (1-based), over the lists as patched so far.
\* range(len(self.eve_bits)) is fixed on entry; reading eve_bases[i] past its
\* end raises IndexError and leaves the lists as patched so far.
RECURSIVE ResolveLoop(_, _, _)
ResolveLoop(i, bits, bases) ==
    IF i > Len(bits) THEN [bits |-> bits, bases |-> bases, raised |-> ""]
    ELSE IF bits[i] # NoneBit THEN ResolveLoop(i + 1, bits, bases)
    ELSE IF i > Len(bases) THEN [bits |-> bits, bases |-> bases, raised |-> "IndexError"]
    ELSE IF bases[i] # NoneBasis THEN ResolveLoop(i + 1, bits, bases)
    ELSE IF i > Len(alice_bases) \/ i > Len(alice_bits)
         THEN [bits |-> bits, bases |-> bases, raised |-> "IndexError"]
    ELSE ResolveLoop(i + 1,
                     [bits EXCEPT ![i] = alice_bits[i]],
                     [bases EXCEPT ![i] = alice_bases[i]])

\* Variant: the pass reads eve_bits[0] before looping, so it raises on an
\* empty history.
eve_delayed_measurement_peek ==
    /\ resolve_calls < MaxResolves
    /\ LET r == IF Len(eve_bits) = 0
                THEN [bits |-> eve_bits, bases |-> eve_bases, raised |-> "IndexError"]
                ELSE ResolveLoop(1, eve_bits, eve_bases)
       IN  /\ eve_bits' = r.bits
           /\ eve_bases' = r.bases
           /\ raised' = r.raised
    /\ last_call' = "eve_delayed_measurement"
    /\ resolve_calls' = resolve_calls + 1
    /\ UNCHANGED <<eve_intercept, alice_bits, alice_bases, bob_bits, bob_bases, photon_nums>>

eve_delayed_measurement ==
    /\ resolve_calls < MaxResolves
    /\ LET r == ResolveLoop(1, eve_bits, eve_bases)
       IN  /\ eve_bits' = r.bits
           /\ eve_bases' = r.bases
           /\ raised' = r.raised
    /\ last_call' = "eve_delayed_measurement"
    /\ resolve_calls' = resolve_calls + 1
    /\ UNCHANGED <<eve_intercept, alice_bits, alice_bases, bob_bits, bob_bases, photon_nums>>

\* ---- specification ----
Next ==
    \/ \E alice_bit \in Bits, alice_basis \in Bases, bob_basis \in Bases,
          photon_num \in PhotonNumbers :
          send_bit(alice_bit, alice_basis, bob_basis, photon_num)
    \/ eve_delayed_measurement

Spec == Init /\ [][Next]_vars

\* ---- helpers for the properties ----
Rounds == 1..Len(alice_bits)

\* The round appended by the send_bit call that just returned.
LastRound == Len(alice_bits)

\* Position at which round i's entry was appended to eve_bases (and, when Eve
\* does not intercept, to eve_bits): vacuum rounds append nothing there.
EveSlot(i) == Cardinality({j \in 1..i : photon_nums[j] # 0})

HasEveBit(i) == i \in DOMAIN eve_bits
HasEveBasis(i) == i \in DOMAIN eve_bases
BothUnresolved(i) ==
    /\ HasEveBit(i) /\ eve_bits[i] = NoneBit
    /\ HasEveBasis(i) /\ eve_bases[i] = NoneBasis
BothResolved(i) ==
    /\ HasEveBit(i) /\ eve_bits[i] \in Bits
    /\ HasEveBasis(i) /\ eve_bases[i] \in Bases

TypeOK ==
    /\ eve_intercept \in BOOLEAN
    /\ Len(alice_bits) <= MaxRounds
    /\ Len(alice_bases) = Len(alice_bits)
    /\ Len(bob_bases) = Len(alice_bits)
    /\ Len(photon_nums) = Len(alice_bits)
    /\ resolve_calls \in 0..MaxResolves
    /\ raised \in {"", "IndexError"}

\* ---- properties ----

\* C1: after every send_bit call the six lists alice_bits, alice_bases,
\* bob_bases, bob_bits, eve_bits and eve_bases all have the same length.
C1_Alignment ==
    last_call = "send_bit" =>
        /\ Len(alice_bases) = Len(alice_bits)
        /\ Len(bob_bases) = Len(alice_bits)
        /\ Len(bob_bits) = Len(alice_bits)
        /\ Len(eve_bits) = Len(alice_bits)
        /\ Len(eve_bases) = Len(alice_bits)

\* C2: with Eve intercepting, after send_bit calls followed by one
\* eve_delayed_measurement call, every round i whose photon number was
\* greater than 1 has eve_bits[i] = alice_bits[i] and
\* eve_bases[i] = alice_bases[i].
C2_PNSResolvedAfterResolve ==
    (eve_intercept /\ last_call = "eve_delayed_measurement" /\ resolve_calls = 1) =>
        \A i \in Rounds :
            photon_nums[i] > 1 =>
                /\ HasEveBit(i) /\ eve_bits[i] = alice_bits[i]
                /\ HasEveBasis(i) /\ eve_bases[i] = alice_bases[i]

\* C3: with Eve intercepting, right after a send_bit call whose photon number
\* is greater than 1, Eve's bit and Eve's basis at the index of the round just
\* appended are both None.
C3_PNSDeferredAtRoundIndex ==
    (eve_intercept /\ last_call = "send_bit" /\ photon_nums[LastRound] > 1) =>
        BothUnresolved(LastRound)

\* C4: in every state, for every round index i, Eve's bit and basis at i are
\* either both resolved or both None; never one without the other.
C4_EvePaired ==
    \A i \in Rounds : BothResolved(i) \/ BothUnresolved(i)

\* C5: in every round, in either mode, bob_bits[i] is None exactly when the
\* round's photon number was 0, and is 0 or 1 when it was 1 or 2.
C5_VacuumCorrectness ==
    /\ Len(bob_bits) = Len(alice_bits)
    /\ \A i \in Rounds :
          /\ bob_bits[i] = NoneBit <=> photon_nums[i] = 0
          /\ photon_nums[i] \in {1, 2} => bob_bits[i] \in Bits

C5_Witness ==
    /\ \E i \in Rounds : photon_nums[i] = 0 /\ bob_bits[i] = NoneBit
    /\ \E i \in Rounds : photon_nums[i] \in {1, 2} /\ bob_bits[i] \in Bits

\* C6: without Eve intercepting, the entries Eve's lists hold for a round of
\* photon number 1 or 2 are None after send_bit and stay None after
\* eve_delayed_measurement.
C6_DisabledStaysUnresolved ==
    ~eve_intercept =>
        \A i \in Rounds :
            photon_nums[i] \in {1, 2} =>
                /\ EveSlot(i) \in DOMAIN eve_bits
                /\ eve_bits[EveSlot(i)] = NoneBit
                /\ EveSlot(i) \in DOMAIN eve_bases
                /\ eve_bases[EveSlot(i)] = NoneBasis

\* C7: an eve_delayed_measurement call sets Eve's basis and bit of every round
\* that was unresolved before it to Alice's basis and bit of that round, and
\* leaves no round unresolved.
C7_ResolveUnconditional ==
    [][(last_call' = "eve_delayed_measurement" /\ resolve_calls' = resolve_calls + 1) =>
          /\ \A i \in Rounds :
                BothUnresolved(i) =>
                    /\ eve_bases'[i] = alice_bases[i]
                    /\ eve_bits'[i] = alice_bits[i]
          /\ \A i \in Rounds :
                /\ i \in DOMAIN eve_bits' /\ eve_bits'[i] # NoneBit
                /\ i \in DOMAIN eve_bases' /\ eve_bases'[i] # NoneBasis]_vars

\* C8: an eve_delayed_measurement call made right after another one changes
\* none of the six lists and ends the same way.
C8_ResolveIdempotent ==
    [][(last_call = "eve_delayed_measurement" /\ last_call' = "eve_delayed_measurement"
           /\ resolve_calls' = resolve_calls + 1) =>
          /\ eve_bits' = eve_bits
          /\ eve_bases' = eve_bases
          /\ raised' = raised
          /\ UNCHANGED <<alice_bits, alice_bases, bob_bits, bob_bases>>]_vars

C8_Witness ==
    /\ resolve_calls = 2
    /\ \E i \in DOMAIN eve_bits, j \in DOMAIN eve_bits :
          /\ i # j
          /\ photon_nums[i] # 0 /\ photon_nums[j] # 0
          /\ i \in DOMAIN eve_bases /\ j \in DOMAIN eve_bases
          /\ eve_bits[i] = alice_bits[i] /\ eve_bases[i] = alice_bases[i]
          /\ eve_bits[j] = alice_bits[j] /\ eve_bases[j] = alice_bases[j]

\* C9: without Eve intercepting, in every round of photon number 1 or 2 in
\* which Alice's and Bob's bases agree, Bob's bit equals Alice's bit.
C9_MatchingBasisFidelity ==
    ~eve_intercept =>
        \A i \in Rounds :
            (photon_nums[i] \in {1, 2} /\ alice_bases[i] = bob_bases[i]) =>
                bob_bits[i] = alice_bits[i]

C9_Witness ==
    /\ ~eve_intercept
    /\ \E i \in Rounds :
          /\ photon_nums[i] \in {1, 2}
          /\ alice_bases[i] = bob_bases[i]
          /\ bob_bits[i] = alice_bits[i]

\* C10: with Eve intercepting, in every round of photon number 1, if the basis
\* Eve chose equals Alice's basis then the bit Eve recorded for the round
\* equals Alice's bit, and if moreover Bob's basis equals Eve's basis then
\* Bob's bit equals Eve's bit.
C10_InterceptResendCorrect ==
    eve_intercept =>
        \A i \in Rounds :
            photon_nums[i] = 1 =>
                /\ HasEveBit(i)
                /\ EveSlot(i) \in DOMAIN eve_bases
                /\ eve_bases[EveSlot(i)] \in Bases
                /\ eve_bases[EveSlot(i)] = alice_bases[i] =>
                      /\ eve_bits[i] = alice_bits[i]
                      /\ bob_bases[i] = eve_bases[EveSlot(i)] => bob_bits[i] = eve_bits[i]

C10_Witness ==
    /\ eve_intercept
    /\ \E i \in Rounds :
          /\ photon_nums[i] = 1
          /\ eve_bases[EveSlot(i)] = alice_bases[i]
          /\ bob_bases[i] = alice_bases[i]
          /\ eve_bits[i] = alice_bits[i]
          /\ bob_bits[i] = eve_bits[i]
          /\ \E j \in Rounds : photon_nums[j] = 0

\* s is an initial segment of t, entry by entry.
IsPrefix(s, t) ==
    /\ Len(s) <= Len(t)
    /\ \A i \in 1..Len(s) : t[i] = s[i]

\* The step is a send_bit call / an eve_delayed_measurement call.
SendStep == photon_nums' # photon_nums
ResolveStep == last_call' = "eve_delayed_measurement" /\ resolve_calls' = resolve_calls + 1

\* C11: every send_bit call extends alice_bits, alice_bases, bob_bases and
\* bob_bits by exactly one entry each, so that their common length is the
\* number of send_bit calls made, and leaves every earlier entry of all six
\* lists in place; no step ever shortens a list.
C11_AppendOnly ==
    [][/\ SendStep =>
             /\ Len(alice_bits') = Len(alice_bits) + 1 /\ IsPrefix(alice_bits, alice_bits')
             /\ Len(alice_bases') = Len(alice_bases) + 1 /\ IsPrefix(alice_bases, alice_bases')
             /\ Len(bob_bases') = Len(bob_bases) + 1 /\ IsPrefix(bob_bases, bob_bases')
             /\ Len(bob_bits') = Len(bob_bits) + 1 /\ IsPrefix(bob_bits, bob_bits')
             /\ Len(alice_bits') = Len(photon_nums')
             /\ Len(alice_bases') = Len(photon_nums')
             /\ Len(bob_bases') = Len(photon_nums')
             /\ Len(bob_bits') = Len(photon_nums')
             /\ IsPrefix(eve_bits, eve_bits')
             /\ IsPrefix(eve_bases, eve_bases')
       /\ IsPrefix(alice_bits, alice_bits') /\ IsPrefix(alice_bases, alice_bases')
       /\ IsPrefix(bob_bases, bob_bases') /\ IsPrefix(bob_bits, bob_bits')
       /\ Len(eve_bits') >= Len(eve_bits) /\ Len(eve_bases') >= Len(eve_bases)]_vars

C11_Witness ==
    /\ last_call = "send_bit"
    /\ Len(alice_bits) = 2 /\ Len(bob_bits) = 2
    /\ photon_nums[1] = 2 /\ photon_nums[2] = 0
    /\ Len(eve_bits) = 2 /\ eve_bits[1] = alice_bits[1]
    /\ Len(eve_bases) = 1 /\ eve_bases[1] = alice_bases[1]

\* C12: an eve_delayed_measurement call leaves alice_bits, alice_bases,
\* bob_bits, bob_bases and the length of both of Eve's lists unchanged,
\* changes an entry of Eve's lists only at an index where her bit and basis
\* were both None, and leaves every resolved entry as it was.
C12_ResolveFrame ==
    [][ResolveStep =>
          /\ UNCHANGED <<alice_bits, alice_bases, bob_bits, bob_bases>>
          /\ Len(eve_bits') = Len(eve_bits)
          /\ Len(eve_bases') = Len(eve_bases)
          /\ \A i \in DOMAIN eve_bits :
                /\ eve_bits'[i] # eve_bits[i] => BothUnresolved(i)
                /\ eve_bits[i] \in Bits => eve_bits'[i] = eve_bits[i]
          /\ \A i \in DOMAIN eve_bases :
                /\ eve_bases'[i] # eve_bases[i] => BothUnresolved(i)
                /\ eve_bases[i] \in Bases => eve_bases'[i] = eve_bases[i]]_vars

C12_Witness ==
    /\ eve_intercept
    /\ last_call = "eve_delayed_measurement"
    /\ raised = ""
    /\ Len(alice_bits) = 2
    /\ photon_nums[1] = 1 /\ photon_nums[2] = 2
    /\ Len(eve_bits) = 2 /\ Len(eve_bases) = 2
    /\ eve_bases[1] \in Bases /\ eve_bases[1] # alice_bases[1]
    /\ eve_bits[1] \in Bits /\ eve_bits[1] # alice_bits[1]
    /\ eve_bits[2] = alice_bits[2] /\ eve_bases[2] = alice_bases[2]

\* C13: an eve_delayed_measurement call on a run with no round returns
\* without raising and leaves all six lists empty.
C13_ResolveOnEmpty ==
    (Len(photon_nums) = 0 /\ last_call = "eve_delayed_measurement") =>
        /\ raised = ""
        /\ alice_bits = <<>> /\ alice_bases = <<>>
        /\ bob_bits = <<>> /\ bob_bases = <<>>
        /\ eve_bits = <<>> /\ eve_bases = <<>>

C13_Witness ==
    /\ Len(photon_nums) = 0
    /\ last_call = "eve_delayed_measurement"
    /\ resolve_calls >= 1
    /\ raised = ""
    /\ eve_bits = <<>> /\ eve_bases = <<>>

\* C14: with Eve intercepting, a send_bit call whose photon number is 0
\* appends one entry to eve_bits and one to eve_bases, both None.
C14_VacuumReservesSlot ==
    [][(SendStep /\ eve_intercept /\ photon_nums'[Len(photon_nums')] = 0) =>
          /\ Len(eve_bits') = Len(eve_bits) + 1
          /\ eve_bits'[Len(eve_bits')] = NoneBit
          /\ Len(eve_bases') = Len(eve_bases) + 1
          /\ eve_bases'[Len(eve_bases')] = NoneBasis]_vars

\* C15: with Eve intercepting and photon number 2, Bob's bit equals Alice's
\* bit in every round in which their bases agree; and a send_bit call can
\* record the bit r for Bob exactly when the bases differ or r is Alice's bit,
\* so that with differing bases both 0 and 1 can follow either bit of Alice.
C15_PNSReceiverUndisturbed ==
    eve_intercept =>
        /\ \A i \in Rounds :
              (photon_nums[i] > 1 /\ alice_bases[i] = bob_bases[i]) =>
                  bob_bits[i] = alice_bits[i]
        /\ Len(alice_bits) < MaxRounds =>
              \A alice_bit \in Bits, alice_basis \in Bases, bob_basis \in Bases, r \in Bits :
                  (ENABLED (/\ send_bit(alice_bit, alice_basis, bob_basis, 2)
                            /\ bob_bits' = Append(bob_bits, r)))
                      <=> (alice_basis # bob_basis \/ r = alice_bit)

C15_Witness ==
    /\ eve_intercept
    /\ Len(alice_bits) = 2
    /\ photon_nums[1] = 2 /\ photon_nums[2] = 2
    /\ alice_bases[1] = bob_bases[1] /\ bob_bits[1] = alice_bits[1]
    /\ alice_bases[2] # bob_bases[2] /\ bob_bits[2] \in Bits /\ bob_bits[2] # alice_bits[2]

\* C16: with Eve intercepting, the bit and the basis a send_bit call of photon
\* number 1 appends to Eve's lists are a bit and a basis, never None, and no
\* later step changes them.
C16_InterceptResendImmediate ==
    [][eve_intercept =>
          \A i \in 1..Len(photon_nums') :
              photon_nums'[i] = 1 =>
                  /\ i \in DOMAIN eve_bits'
                  /\ eve_bits'[i] \in Bits
                  /\ EveSlot(i)' \in DOMAIN eve_bases'
                  /\ eve_bases'[EveSlot(i)'] \in Bases
                  /\ i <= Len(photon_nums) =>
                        /\ eve_bits'[i] = eve_bits[i]
                        /\ EveSlot(i)' = EveSlot(i)
                        /\ eve_bases'[EveSlot(i)] = eve_bases[EveSlot(i)]]_vars

C16_Witness ==
    /\ eve_intercept
    /\ last_call = "eve_delayed_measurement"
    /\ Len(alice_bits) = 2
    /\ photon_nums[1] = 0 /\ photon_nums[2] = 1
    /\ eve_bits[2] \in Bits /\ eve_bits[2] # alice_bits[2]
    /\ Len(eve_bases) = 1 /\ eve_bases[1] \in Bases /\ eve_bases[1] # alice_bases[2]

\* C17: in every step, each entry already in eve_bits or eve_bases stays in
\* place, and if its value changes then it changes from None to a bit or a
\* basis and the step is an eve_delayed_measurement call; an entry that is not
\* None stays as it is.
C17_PatchAtMostOnce ==
    [][/\ \A i \in DOMAIN eve_bits :
             /\ i \in DOMAIN eve_bits'
             /\ eve_bits'[i] # eve_bits[i] =>
                   /\ eve_bits[i] = NoneBit
                   /\ eve_bits'[i] \in Bits
                   /\ ResolveStep
             /\ eve_bits[i] # NoneBit => eve_bits'[i] = eve_bits[i]
       /\ \A i \in DOMAIN eve_bases :
             /\ i \in DOMAIN eve_bases'
             /\ eve_bases'[i] # eve_bases[i] =>
                   /\ eve_bases[i] = NoneBasis
                   /\ eve_bases'[i] \in Bases
                   /\ ResolveStep
             /\ eve_bases[i] # NoneBasis => eve_bases'[i] = eve_bases[i]]_vars

C17_Witness ==
    /\ ~eve_intercept
    /\ last_call = "eve_delayed_measurement"
    /\ resolve_calls = 1
    /\ Len(alice_bits) = 2
    /\ photon_nums[1] = 1 /\ photon_nums[2] = 1
    /\ alice_bits[1] # alice_bits[2] /\ alice_bases[1] # alice_bases[2]
    /\ Len(eve_bits) = 2 /\ Len(eve_bases) = 2
    /\ eve_bits[1] = alice_bits[1] /\ eve_bases[1] = alice_bases[1]
    /\ eve_bits[2] = alice_bits[2] /\ eve_bases[2] = alice_bases[2]

\* C18: every eve_delayed_measurement call returns without raising: each index
\* it reads in eve_bases, alice_bases and alice_bits is within bounds.
C18_ResolveCompletes ==
    last_call = "eve_delayed_measurement" => raised = ""

\* C19: in every state len(eve_bases) <= len(eve_bits) <= len(alice_bits);
\* with Eve intercepting len(eve_bits) is the number of rounds, and without
\* her len(eve_bits) = len(eve_bases).
C19_EveLengths ==
    /\ Len(eve_bases) <= Len(eve_bits)
    /\ Len(eve_bits) <= Len(alice_bits)
    /\ eve_intercept => Len(eve_bits) = Len(photon_nums)
    /\ ~eve_intercept => Len(eve_bits) = Len(eve_bases)

C19_Witness ==
    /\ eve_intercept
    /\ Len(photon_nums) = 2
    /\ photon_nums[1] = 0 /\ photon_nums[2] = 2
    /\ Len(eve_bits) = 2
    /\ Len(eve_bases) = 1
====
